---------------------------- MODULE Spec2Model ----------------------------
(***************************************************************************)
(* Live auction engine: AuctionManager (items, per-item promise chains,    *)
(* restart barrier) and SocketHandler (BID_PLACED handler, monitoring      *)
(* tick), with the REST operator/query surface of AuctionRoutes.           *)
(*                                                                         *)
(* Scheduling.  Node runs one macrotask (a timer callback, an HTTP         *)
(* handler) to completion and then drains every promise continuation       *)
(* before the next macrotask starts.  The chained evaluations of           *)
(* processBid and the continuation of the BID_PLACED handler after its     *)
(* await are promise continuations, so the tick and the REST handlers run  *)
(* only when no bid is waiting (Quiescent).  Date.now() is the wall clock  *)
(* and may advance between any two steps.                                  *)
(***************************************************************************)
EXTENDS Integers, Sequences, FiniteSets, TLC

VARIABLES
    now,                    \* Date.now()
    items,                  \* AuctionManager.items
    bidQueues,              \* AuctionManager.bidQueues: id -> tail of the chain
    allAuctionsEndTime,     \* AuctionManager.allAuctionsEndTime
    notifiedEndedAuctions,  \* SocketHandler.notifiedEndedAuctions
    pending,                \* chained units of work not yet evaluated
    replies,                \* settled bid promises whose handler has not resumed
    nextId,                 \* number of the next processBid call
    operatorCalls,          \* REST and operator calls made so far
    emitted,                \* the last step's callback invocation and emitted events, in order
    held,                   \* what the last getItem / getAllItems call returned to its caller
    handed,                 \* the array the last reset returned to its caller
    broadcast,              \* history: per item, the currentBid of the period's last UPDATE_BID (0: none)
    lastAccepted,           \* history: per item, the last successful bid of the period
    shadow,                 \* history: the registry had every faulted evaluation been a plain rejection
    announced,              \* history: items whose AUCTION_ENDED went out in their current period
    cancelledAt             \* history: when a tick last cleared a recorded barrier

vars == <<now, items, bidQueues, allAuctionsEndTime, notifiedEndedAuctions,
          pending, replies, nextId, operatorCalls, emitted, held, handed, broadcast,
          lastAccepted, shadow, announced, cancelledAt>>

---------------------------------------------------------------------------
(* Bounds of the model *)

MaxRequests == 2
MaxNow == 360000
ClockStep == 90000
FineStep == 20000
MaxLateNow == 460000
Jitter == 1

(* Program constants *)

MIN_INCREMENT == 10
RESTART_DELAY == 30000
MINUTE == 60000

Null == "null"
NoTime == 0 - 1
Resolved == 0
Absent == 0 - 1

Items == {"item1", "item2"}
ItemIds == Items \cup {"ghost"}
Users == {"u1", "u2"}
Amounts == {109, 110, 120}
\* the BID_PLACED payloads a client sends: every bid on a listed item, one on an unknown id
BidRequests ==
    {[itemId |-> i, bidAmount |-> a, userId |-> u] : i \in Items, a \in Amounts, u \in Users}
        \cup {[itemId |-> "ghost", bidAmount |-> 110, userId |-> "u1"]}
RandomMinutes == {3, 8}

\* a field the client left out of the payload
Undefined == "undefined"
\* BID_PLACED payloads without a userId
MalformedRequests ==
    {[itemId |-> i, bidAmount |-> 110, userId |-> Undefined] : i \in Items}

\* initializeItems: the seed catalogue, cut down to two items
Catalogue ==
    [item1 |-> [startingPrice |-> 100, duration |-> 180000],
     item2 |-> [startingPrice |-> 50, duration |-> 240000]]

NoItem == [id |-> Null, startingPrice |-> 0, currentBid |-> 0,
           currentBidder |-> Null, auctionEndTime |-> 0]

initializeItems(t) ==
    [i \in Items |->
        [id |-> i,
         startingPrice |-> Catalogue[i].startingPrice,
         currentBid |-> Catalogue[i].startingPrice,
         currentBidder |-> Null,
         auctionEndTime |-> t + Catalogue[i].duration]]

---------------------------------------------------------------------------
(* Responses *)

Message(text, amount) == [text |-> text, amount |-> amount]

Rejected(text, amount, error) ==
    [success |-> FALSE, message |-> Message(text, amount), error |-> error,
     item |-> NoItem]

Accepted(item) ==
    [success |-> TRUE, message |-> Message("Bid placed successfully", 0),
     error |-> "none", item |-> item]


---------------------------------------------------------------------------
(* AuctionManager.executeBid: the response and the registry it leaves *)

Outcome(response, registry) == [response |-> response, items |-> registry]

ExecuteBidWrongOrder(its, t, itemId, bidAmount, userId) ==
    IF itemId \notin DOMAIN its
    THEN Outcome(Rejected("Item not found", 0, "ITEM_NOT_FOUND"), its)
    ELSE LET item == its[itemId]
             minimumBid == item.currentBid + MIN_INCREMENT
         IN  IF item.currentBidder = userId
             THEN Outcome(Rejected("You are already the highest bidder", 0,
                                   "ALREADY_HIGHEST_BIDDER"), its)
             ELSE IF bidAmount < minimumBid
             THEN Outcome(Rejected("Bid must be at least $", minimumBid,
                                   "BID_TOO_LOW"), its)
             ELSE IF t >= item.auctionEndTime
             THEN Outcome(Rejected("Auction has ended", 0, "AUCTION_ENDED"), its)
             ELSE LET updated == [item EXCEPT !.currentBid = bidAmount,
                                              !.currentBidder = userId]
                  IN  Outcome(Accepted(updated), [its EXCEPT ![itemId] = updated])

ExecuteBidStrictIncrement(its, t, itemId, bidAmount, userId) ==
    IF itemId \notin DOMAIN its
    THEN Outcome(Rejected("Item not found", 0, "ITEM_NOT_FOUND"), its)
    ELSE LET item == its[itemId]
             minimumBid == item.currentBid + MIN_INCREMENT
         IN  IF t >= item.auctionEndTime
             THEN Outcome(Rejected("Auction has ended", 0, "AUCTION_ENDED"), its)
             ELSE IF bidAmount <= minimumBid
             THEN Outcome(Rejected("Bid must be at least $", minimumBid,
                                   "BID_TOO_LOW"), its)
             ELSE IF item.currentBidder = userId
             THEN Outcome(Rejected("You are already the highest bidder", 0,
                                   "ALREADY_HIGHEST_BIDDER"), its)
             ELSE LET updated == [item EXCEPT !.currentBid = bidAmount,
                                              !.currentBidder = userId]
                  IN  Outcome(Accepted(updated), [its EXCEPT ![itemId] = updated])

ExecuteBidNoIncrement(its, t, itemId, bidAmount, userId) ==
    IF itemId \notin DOMAIN its
    THEN Outcome(Rejected("Item not found", 0, "ITEM_NOT_FOUND"), its)
    ELSE LET item == its[itemId]
             minimumBid == item.currentBid
         IN  IF t >= item.auctionEndTime
             THEN Outcome(Rejected("Auction has ended", 0, "AUCTION_ENDED"), its)
             ELSE IF bidAmount < minimumBid
             THEN Outcome(Rejected("Bid must be at least $", minimumBid,
                                   "BID_TOO_LOW"), its)
             ELSE IF item.currentBidder = userId
             THEN Outcome(Rejected("You are already the highest bidder", 0,
                                   "ALREADY_HIGHEST_BIDDER"), its)
             ELSE LET updated == [item EXCEPT !.currentBid = bidAmount,
                                              !.currentBidder = userId]
                  IN  Outcome(Accepted(updated), [its EXCEPT ![itemId] = updated])

ExecuteBidNoLeaderCheck(its, t, itemId, bidAmount, userId) ==
    IF itemId \notin DOMAIN its
    THEN Outcome(Rejected("Item not found", 0, "ITEM_NOT_FOUND"), its)
    ELSE LET item == its[itemId]
             minimumBid == item.currentBid + MIN_INCREMENT
         IN  IF t >= item.auctionEndTime
             THEN Outcome(Rejected("Auction has ended", 0, "AUCTION_ENDED"), its)
             ELSE IF bidAmount < minimumBid
             THEN Outcome(Rejected("Bid must be at least $", minimumBid,
                                   "BID_TOO_LOW"), its)
             ELSE LET updated == [item EXCEPT !.currentBid = bidAmount,
                                              !.currentBidder = userId]
                  IN  Outcome(Accepted(updated), [its EXCEPT ![itemId] = updated])

ExecuteBidLateEnd(its, t, itemId, bidAmount, userId) ==
    IF itemId \notin DOMAIN its
    THEN Outcome(Rejected("Item not found", 0, "ITEM_NOT_FOUND"), its)
    ELSE LET item == its[itemId]
             minimumBid == item.currentBid + MIN_INCREMENT
         IN  IF t > item.auctionEndTime
             THEN Outcome(Rejected("Auction has ended", 0, "AUCTION_ENDED"), its)
             ELSE IF bidAmount < minimumBid
             THEN Outcome(Rejected("Bid must be at least $", minimumBid,
                                   "BID_TOO_LOW"), its)
             ELSE IF item.currentBidder = userId
             THEN Outcome(Rejected("You are already the highest bidder", 0,
                                   "ALREADY_HIGHEST_BIDDER"), its)
             ELSE LET updated == [item EXCEPT !.currentBid = bidAmount,
                                              !.currentBidder = userId]
                  IN  Outcome(Accepted(updated), [its EXCEPT ![itemId] = updated])

ExecuteBid(its, t, itemId, bidAmount, userId) ==
    IF itemId \notin DOMAIN its
    THEN Outcome(Rejected("Item not found", 0, "ITEM_NOT_FOUND"), its)
    ELSE LET item == its[itemId]
             minimumBid == item.currentBid + MIN_INCREMENT
         IN  IF t >= item.auctionEndTime
             THEN Outcome(Rejected("Auction has ended", 0, "AUCTION_ENDED"), its)
             ELSE IF bidAmount < minimumBid
             THEN Outcome(Rejected("Bid must be at least $", minimumBid,
                                   "BID_TOO_LOW"), its)
             ELSE IF item.currentBidder = userId
             THEN Outcome(Rejected("You are already the highest bidder", 0,
                                   "ALREADY_HIGHEST_BIDDER"), its)
             ELSE LET updated == [item EXCEPT !.currentBid = bidAmount,
                                              !.currentBidder = userId]
                  IN  Outcome(Accepted(updated), [its EXCEPT ![itemId] = updated])

\* the catch of processBid: the rejection of the chained evaluation becomes a response
ThrownMessage == "logger failure"

CaughtFault(message) ==
    [success |-> FALSE, message |-> Message("Internal server error", 0),
     error |-> message, item |-> NoItem]

\* an evaluation whose logging statement throws: every path of executeBid logs once,
\* the rejections before they return, the success path after it has written the item
ExecuteBidThrowing(its, t, itemId, bidAmount, userId) ==
    Outcome(CaughtFault(ThrownMessage), ExecuteBid(its, t, itemId, bidAmount, userId).items)

---------------------------------------------------------------------------
(* AuctionManager: expiry, the restart barrier and the resets *)

ItemOrder == <<"item1", "item2">>

getExpiredAuctions(its, t) == {i \in DOMAIN its : t >= its[i].auctionEndTime}

areAllAuctionsEnded(its, t) == \A i \in DOMAIN its : ~(t < its[i].auctionEndTime)

Max(a, b) == IF a >= b THEN a ELSE b

getRestartCountdownNoDelay(its, t, allEnded) ==
    IF ~areAllAuctionsEnded(its, t)
    THEN [allAuctionsEndTime |-> NoTime, value |-> NoTime]
    ELSE LET recorded == IF allEnded = NoTime THEN t ELSE allEnded
         IN  [allAuctionsEndTime |-> recorded,
              value |-> Max(0, recorded - t)]

getRestartCountdownNoFloor(its, t, allEnded) ==
    IF ~areAllAuctionsEnded(its, t)
    THEN [allAuctionsEndTime |-> NoTime, value |-> NoTime]
    ELSE LET recorded == IF allEnded = NoTime THEN t ELSE allEnded
         IN  [allAuctionsEndTime |-> recorded,
              value |-> recorded + RESTART_DELAY - t]

getRestartCountdownRerecords(its, t, allEnded) ==
    IF ~areAllAuctionsEnded(its, t)
    THEN [allAuctionsEndTime |-> NoTime, value |-> NoTime]
    ELSE [allAuctionsEndTime |-> t, value |-> Max(0, t + RESTART_DELAY - t)]

getRestartCountdownKeepsBarrier(its, t, allEnded) ==
    IF ~areAllAuctionsEnded(its, t)
    THEN [allAuctionsEndTime |-> allEnded, value |-> NoTime]
    ELSE LET recorded == IF allEnded = NoTime THEN t ELSE allEnded
         IN  [allAuctionsEndTime |-> recorded,
              value |-> Max(0, recorded + RESTART_DELAY - t)]

\* getRestartCountdown: the barrier it leaves and the value it returns (NoTime for null)
getRestartCountdown(its, t, allEnded) ==
    IF ~areAllAuctionsEnded(its, t)
    THEN [allAuctionsEndTime |-> NoTime, value |-> NoTime]
    ELSE LET recorded == IF allEnded = NoTime THEN t ELSE allEnded
         IN  [allAuctionsEndTime |-> recorded,
              value |-> Max(0, recorded + RESTART_DELAY - t)]

ResetItemRebased(item, t, randomMinutes) ==
    [item EXCEPT !.startingPrice = item.currentBid,
                 !.currentBidder = Null,
                 !.auctionEndTime = t + randomMinutes * MINUTE]

ResetItemKeepsBidder(item, t, randomMinutes) ==
    [item EXCEPT !.currentBid = item.startingPrice,
                 !.auctionEndTime = t + randomMinutes * MINUTE]

ResetItemKeepsBid(item, t, randomMinutes) ==
    [item EXCEPT !.currentBidder = Null,
                 !.auctionEndTime = t + randomMinutes * MINUTE]

\* the loop body shared by autoResetExpiredAuctions and resetAllAuctions
ResetItem(item, t, randomMinutes) ==
    [item EXCEPT !.currentBid = item.startingPrice,
                 !.currentBidder = Null,
                 !.auctionEndTime = t + randomMinutes * MINUTE]

Snapshots(its) == [k \in 1..Len(ItemOrder) |-> its[ItemOrder[k]]]

autoResetExpiredAuctions(its, t, allEnded, minutes) ==
    LET countdown == getRestartCountdown(its, t, allEnded)
    IN  IF countdown.value = NoTime \/ countdown.value > 0
        THEN [items |-> its, allAuctionsEndTime |-> countdown.allAuctionsEndTime,
              resetItems |-> <<>>]
        ELSE LET fresh == [i \in DOMAIN its |-> ResetItem(its[i], t, minutes[i])]
             IN  [items |-> fresh, allAuctionsEndTime |-> NoTime,
                  resetItems |-> Snapshots(fresh)]

\* getRestartCountdown with its two clock readings told apart: t is read by its
\* first statement, tEnded by the areAllAuctionsEnded it calls next
getRestartCountdownReads(its, t, tEnded, allEnded) ==
    IF ~areAllAuctionsEnded(its, tEnded)
    THEN [allAuctionsEndTime |-> NoTime, value |-> NoTime]
    ELSE LET recorded == IF allEnded = NoTime THEN t ELSE allEnded
         IN  [allAuctionsEndTime |-> recorded,
              value |-> Max(0, recorded + RESTART_DELAY - t)]

\* autoResetExpiredAuctions with its three clock readings told apart
autoResetExpiredAuctionsReads(its, t, tEnded, tReset, allEnded, minutes) ==
    LET countdown == getRestartCountdownReads(its, t, tEnded, allEnded)
    IN  IF countdown.value = NoTime \/ countdown.value > 0
        THEN [items |-> its, allAuctionsEndTime |-> countdown.allAuctionsEndTime,
              resetItems |-> <<>>]
        ELSE LET fresh == [i \in DOMAIN its |-> ResetItem(its[i], tReset, minutes[i])]
             IN  [items |-> fresh, allAuctionsEndTime |-> NoTime,
                  resetItems |-> Snapshots(fresh)]

resetAllAuctionsExpiredOnly(its, t, minutes) ==
    [i \in DOMAIN its |->
        IF t >= its[i].auctionEndTime THEN ResetItem(its[i], t, minutes[i]) ELSE its[i]]

resetAllAuctions(its, t, minutes) ==
    [i \in DOMAIN its |-> ResetItem(its[i], t, minutes[i])]

resetAuction(its, t, itemId) ==
    IF itemId \notin DOMAIN its
    THEN its
    ELSE [its EXCEPT ![itemId] =
            [its[itemId] EXCEPT !.currentBid = its[itemId].startingPrice,
                                !.currentBidder = Null,
                                !.auctionEndTime = t + 5 * MINUTE]]

---------------------------------------------------------------------------
(* AuctionManager.getItem / getAllItems: what the caller is handed *)

\* the caller holds references to the registry's own item objects (refs); seen is
\* what those objects held when the call returned
Returned(refs, its) == [refs |-> refs, seen |-> [k \in 1..Len(refs) |-> its[refs[k]]]]

NoneHeld == Returned(<<>>, <<>>)

getItem(its, itemId) ==
    IF itemId \in DOMAIN its THEN Returned(<<itemId>>, its) ELSE NoneHeld

getAllItems(its) == Returned(ItemOrder, its)

\* what the caller reads through the references it holds
View(h, its) == [k \in 1..Len(h.refs) |-> its[h.refs[k]]]

SnapshotRefLive(itemId) == itemId

\* { ...item }: a new object, which holds no reference to the registry's object
SnapshotRef(itemId) == Null

\* the resetItems array of a reset: one snapshot per item, pushed in the loop
Copies(its) ==
    [refs |-> [k \in 1..Len(ItemOrder) |-> SnapshotRef(ItemOrder[k])],
     seen |-> Snapshots(its)]

\* what the holder of a snapshot reads in it
ReadSnapshot(ref, seen, its) == IF ref = Null THEN seen ELSE its[ref]

\* what the holder of a resetItems array reads in it
ViewCopies(h, its) ==
    [k \in 1..Len(h.refs) |-> ReadSnapshot(h.refs[k], h.seen[k], its)]

\* what the holder of a successful BidResult reads in its item
ResultItem(r, its) == ReadSnapshot(SnapshotRef(r.bid.itemId), r.response.item, its)

---------------------------------------------------------------------------
(* Events handed to socket.io and responses handed to express *)

Event(type, payload) == [type |-> type, payload |-> payload]

\* no UPDATE_BID has gone out in the period of any item
NoBroadcast == [i \in Items |-> 0]

\* the broadcasts that brought a running auction to where it stands
Broadcasts(its) ==
    [i \in Items |-> IF its[i].currentBidder = Null THEN 0 ELSE its[i].currentBid]

\* the record of the last UPDATE_BID per item, after the handler has emitted events
NoteBroadcast(events) ==
    [i \in Items |->
        LET sent == {k \in 1..Len(events) :
                        events[k].type = "UPDATE_BID" /\ events[k].payload.id = i}
        IN  IF sent = {} THEN broadcast[i]
            ELSE events[CHOOSE k \in sent : \A n \in sent : n <= k].payload.currentBid]

FreshPeriod(its) ==
    [i \in DOMAIN its |-> [userId |-> Null, bidAmount |-> its[i].startingPrice]]

---------------------------------------------------------------------------
(* The initial state: both constructors have run *)

Init ==
    /\ now = 0
    /\ items = initializeItems(0)
    /\ bidQueues = [i \in ItemIds |-> IF i \in Items THEN Resolved ELSE Absent]
    /\ allAuctionsEndTime = NoTime
    /\ notifiedEndedAuctions = {}
    /\ pending = {}
    /\ replies = <<>>
    /\ nextId = 1
    /\ operatorCalls = 0
    /\ emitted = <<>>
    /\ held = NoneHeld
    /\ handed = NoneHeld
    /\ broadcast = Broadcasts(items)
    /\ lastAccepted = FreshPeriod(initializeItems(0))
    /\ shadow = initializeItems(0)
    /\ announced = {}
    /\ cancelledAt = NoTime

\* the registry after executeBid has accepted a first bid of 110 by u1 on item1
Led(its) == [its EXCEPT !["item1"].currentBid = 110, !["item1"].currentBidder = "u1"]

\* a running auction: u1 leads item1, the bid's chain has settled
InitLeading ==
    /\ now = 0
    /\ items = Led(initializeItems(0))
    /\ bidQueues = [i \in ItemIds |-> IF i \in Items THEN Resolved ELSE Absent]
    /\ allAuctionsEndTime = NoTime
    /\ notifiedEndedAuctions = {}
    /\ pending = {}
    /\ replies = <<>>
    /\ nextId = 1
    /\ operatorCalls = 0
    /\ emitted = <<>>
    /\ lastAccepted = [FreshPeriod(initializeItems(0)) EXCEPT
                          !["item1"] = [userId |-> "u1", bidAmount |-> 110]]
    /\ shadow = Led(initializeItems(0))
    /\ held = NoneHeld
    /\ handed = NoneHeld
    /\ broadcast = Broadcasts(items)
    /\ announced = {}
    /\ cancelledAt = NoTime

---------------------------------------------------------------------------
(* processBid, called by the BID_PLACED handler *)

\* the client and operator requests received so far
Requests == (nextId - 1) + operatorCalls

\* one chain for all items
CurrentQueueShared(queues, itemId) ==
    LET tails == {queues[i] : i \in DOMAIN queues} \ {Absent}
    IN  IF tails = {} THEN Resolved
        ELSE CHOOSE t \in tails : \A u \in tails : u <= t

CurrentQueue(queues, itemId) ==
    IF queues[itemId] = Absent THEN Resolved ELSE queues[itemId]

SetTailDropped(queues, itemId, id) == queues

SetTail(queues, itemId, id) == [queues EXCEPT ![itemId] = id]

ProcessBid(itemId, bidAmount, userId) ==
    /\ Requests < MaxRequests
    /\ pending' = pending \cup
          {[id |-> nextId, itemId |-> itemId, bidAmount |-> bidAmount,
            userId |-> userId, prev |-> CurrentQueue(bidQueues, itemId),
            endedAtSubmit |-> itemId \in getExpiredAuctions(items, now)]}
    /\ bidQueues' = SetTail(bidQueues, itemId, nextId)
    /\ nextId' = nextId + 1
    /\ emitted' = <<>>
    /\ UNCHANGED <<operatorCalls, now, items, allAuctionsEndTime, notifiedEndedAuctions, replies,
                   lastAccepted, shadow>>
    /\ UNCHANGED <<held, handed, broadcast, announced, cancelledAt>>

\* the promise a unit is chained on has settled
Ready(b) == b.prev = Resolved \/ \A p \in pending : p.id # b.prev

Seen(its, itemId) == IF itemId \in DOMAIN its THEN its[itemId] ELSE NoItem

NoPrior == [userId |-> Null, bidAmount |-> 0]

\* the settled promise of a unit, with what its evaluation read and left (history)
Settled(b, out, reference, faulted) ==
    [bid |-> b, response |-> out.response, at |-> now,
     saw |-> Seen(items, b.itemId),
     left |-> Seen(out.items, b.itemId),
     prior |-> IF b.itemId \in Items THEN lastAccepted[b.itemId] ELSE NoPrior,
     reference |-> reference, faulted |-> faulted]

NoteAccepted(b, response) ==
    IF response.success
    THEN [lastAccepted EXCEPT ![b.itemId] =
            [userId |-> b.userId, bidAmount |-> b.bidAmount]]
    ELSE lastAccepted

\* the chained unit of work runs executeBid
Evaluate(b) ==
    /\ b \in pending
    /\ Ready(b)
    /\ LET out == ExecuteBid(items, now, b.itemId, b.bidAmount, b.userId)
           ref == ExecuteBid(shadow, now, b.itemId, b.bidAmount, b.userId)
       IN  /\ items' = out.items
           /\ shadow' = ref.items
           /\ replies' = Append(replies, Settled(b, out, ref.response, FALSE))
           /\ lastAccepted' = NoteAccepted(b, out.response)
    /\ pending' = pending \ {b}
    /\ emitted' = <<>>
    /\ UNCHANGED <<operatorCalls, now, bidQueues, allAuctionsEndTime, notifiedEndedAuctions,
                   nextId>>
    /\ UNCHANGED <<held, handed, broadcast, announced, cancelledAt>>

\* the chained unit of work throws inside executeBid and the catch answers
EvaluateThrowing(b) ==
    /\ b \in pending
    /\ Ready(b)
    /\ LET out == ExecuteBidThrowing(items, now, b.itemId, b.bidAmount, b.userId)
       IN  /\ items' = out.items
           /\ replies' = Append(replies, Settled(b, out, out.response, TRUE))
           /\ lastAccepted' = NoteAccepted(b, out.response)
    /\ pending' = pending \ {b}
    /\ emitted' = <<>>
    /\ UNCHANGED <<operatorCalls, now, bidQueues, allAuctionsEndTime, notifiedEndedAuctions,
                   nextId, shadow>>
    /\ UNCHANGED <<held, handed, broadcast, announced, cancelledAt>>

\* the BID_PLACED handler resumes after its await
Deliver ==
    /\ replies # <<>>
    /\ LET r == Head(replies)
       IN  emitted' =
             <<Event("callback", r)>>
             \o (IF r.response.success /\ r.response.item # NoItem
                 THEN <<Event("UPDATE_BID", ResultItem(r, items)),
                        Event("OUTBID", [itemId |-> r.bid.itemId,
                                         newBid |-> r.bid.bidAmount,
                                         except |-> r.bid.userId])>>
                 ELSE <<>>)
    /\ replies' = Tail(replies)
    /\ UNCHANGED <<operatorCalls, now, items, bidQueues, allAuctionsEndTime, notifiedEndedAuctions,
                   pending, nextId, lastAccepted, shadow>>
    /\ broadcast' = NoteBroadcast(emitted')
    /\ UNCHANGED <<held, handed, announced, cancelledAt>>

\* the response of the handler's own catch
InternalError ==
    [success |-> FALSE, message |-> Message("Internal server error", 0),
     error |-> "INTERNAL_ERROR", item |-> NoItem]

\* the handler resumes with an accepted bid, has called the callback, and the logging
\* statement that precedes the broadcasts throws: its catch calls the callback again
DeliverThrowing ==
    /\ replies # <<>>
    /\ LET r == Head(replies)
       IN  /\ r.response.success /\ r.response.item # NoItem
           /\ emitted' =
                <<Event("callback", r),
                  Event("callback", [bid |-> r.bid, response |-> InternalError])>>
    /\ replies' = Tail(replies)
    /\ UNCHANGED <<operatorCalls, now, items, bidQueues, allAuctionsEndTime, notifiedEndedAuctions,
                   pending, nextId, lastAccepted, shadow>>
    /\ UNCHANGED <<held, handed, broadcast, announced, cancelledAt>>

---------------------------------------------------------------------------
(* Macrotasks: the monitoring tick and the REST handlers *)

Quiescent == pending = {} /\ replies = <<>>

EndedEvents(newly) ==
    LET RECURSIVE Build(_)
        Build(k) ==
            IF k > Len(ItemOrder) THEN <<>>
            ELSE (IF ItemOrder[k] \in newly
                  THEN <<Event("AUCTION_ENDED", ItemOrder[k])>> ELSE <<>>)
                 \o Build(k + 1)
    IN  Build(1)

NotifiedNeverCleared(notified, expired, fired) == notified \cup expired

\* the notified set after a tick: every expired id is added, a reset empties the set
NotifiedAfterTick(notified, expired, fired) ==
    IF fired THEN {} ELSE notified \cup expired

\* the body of the setInterval callback of startAuctionMonitoring
RunTick(minutes) ==
    /\ LET expired == getExpiredAuctions(items, now)
           newly == expired \ notifiedEndedAuctions
           countdown == getRestartCountdown(items, now, allAuctionsEndTime)
           allEnded == areAllAuctionsEnded(items, now)
           reset == autoResetExpiredAuctions(items, now,
                        countdown.allAuctionsEndTime, minutes)
           fired == Len(reset.resetItems) > 0
       IN  /\ items' = reset.items
           /\ shadow' = IF fired THEN reset.items ELSE shadow
           /\ allAuctionsEndTime' = reset.allAuctionsEndTime
           /\ notifiedEndedAuctions' =
                NotifiedAfterTick(notifiedEndedAuctions, expired, fired)
           /\ lastAccepted' = IF fired THEN FreshPeriod(reset.items) ELSE lastAccepted
           /\ handed' = IF fired THEN Copies(reset.items) ELSE handed
           /\ broadcast' = IF fired THEN NoBroadcast ELSE broadcast
           /\ announced' = IF fired THEN {} ELSE announced \cup newly
           /\ cancelledAt' =
                IF allAuctionsEndTime # NoTime /\ countdown.allAuctionsEndTime = NoTime
                THEN now ELSE cancelledAt
           /\ emitted' =
                EndedEvents(newly)
                \o <<Event("RESTART_COUNTDOWN",
                           [allAuctionsEnded |-> allEnded,
                            restartCountdown |-> countdown.value])>>
                \o (IF fired THEN <<Event("ALL_AUCTIONS_RESET", reset.resetItems)>>
                    ELSE <<>>)
    /\ UNCHANGED <<operatorCalls, now, bidQueues, pending, replies, nextId, held>>

\* the callback as the timer runs it: a macrotask, taken once the promise
\* continuations of the bids received so far have run
Tick(minutes) ==
    /\ Quiescent
    /\ RunTick(minutes)

\* the callback run between two chained units of work, in a run that resets: an
\* order that a scheduler which does not finish the chains first would produce
TickInterleaved(minutes) ==
    /\ pending # {}
    /\ RunTick(minutes)
    /\ \E i \in Items : items'[i].auctionEndTime # items[i].auctionEndTime

\* the seven clock readings of one run of the callback, when the clock moves on
\* after the k-th of them
ClockReads(k) == [j \in 1..7 |-> IF j <= k THEN now ELSE now + Jitter]

\* the instants at which the outcome of a tick changes
Edges ==
    {items[i].auctionEndTime : i \in DOMAIN items}
    \cup (IF allAuctionsEndTime = NoTime THEN {}
          ELSE {allAuctionsEndTime + RESTART_DELAY})

\* the setInterval callback, run while the millisecond clock moves on: each callee
\* reads Date.now() for itself. Taken when the readings lie on both sides of an
\* instant of Edges; at any other time every reading gives its callee the same
\* answer and the run is that of Tick
TickAcrossClock(minutes) ==
    /\ Quiescent
    /\ now + Jitter <= MaxLateNow
    /\ \E e \in Edges : now < e /\ e <= now + Jitter
    /\ \E k \in 1..6 :
        LET at == ClockReads(k)
            expired == getExpiredAuctions(items, at[1])
            newly == expired \ notifiedEndedAuctions
            countdown == getRestartCountdownReads(items, at[2], at[3],
                             allAuctionsEndTime)
            allEnded == areAllAuctionsEnded(items, at[4])
            reset == autoResetExpiredAuctionsReads(items, at[5], at[6], at[7],
                         countdown.allAuctionsEndTime, minutes)
            fired == Len(reset.resetItems) > 0
        IN  /\ items' = reset.items
            /\ shadow' = IF fired THEN reset.items ELSE shadow
            /\ allAuctionsEndTime' = reset.allAuctionsEndTime
            /\ notifiedEndedAuctions' =
                 NotifiedAfterTick(notifiedEndedAuctions, expired, fired)
            /\ lastAccepted' = IF fired THEN FreshPeriod(reset.items) ELSE lastAccepted
            /\ handed' = IF fired THEN Copies(reset.items) ELSE handed
            /\ broadcast' = IF fired THEN NoBroadcast ELSE broadcast
            /\ announced' = IF fired THEN {} ELSE announced \cup newly
            /\ cancelledAt' =
                 IF allAuctionsEndTime # NoTime /\ countdown.allAuctionsEndTime = NoTime
                 THEN now ELSE cancelledAt
            /\ emitted' =
                 EndedEvents(newly)
                 \o <<Event("RESTART_COUNTDOWN",
                            [allAuctionsEnded |-> allEnded,
                             restartCountdown |-> countdown.value])>>
                 \o (IF fired THEN <<Event("ALL_AUCTIONS_RESET", reset.resetItems)>>
                     ELSE <<>>)
    /\ now' = now + Jitter
    /\ UNCHANGED <<operatorCalls, bidQueues, pending, replies, nextId, held>>

\* the items of ItemOrder that come before the given one
Before(itemId) ==
    {ItemOrder[k] : k \in {n \in 1..Len(ItemOrder) :
                              \E m \in (n + 1)..Len(ItemOrder) : ItemOrder[m] = itemId}}

\* the setInterval callback when the logging statement of the loop over the expired
\* ids throws at one of them: the callback has no try, so the loop and the rest of
\* the callback are abandoned and the exception leaves the timer
TickThrowing(itemId) ==
    /\ Quiescent
    /\ LET expired == getExpiredAuctions(items, now)
           newly == expired \ notifiedEndedAuctions
           done == newly \cap Before(itemId)
       IN  /\ itemId \in newly
           /\ notifiedEndedAuctions' = notifiedEndedAuctions \cup done
           /\ announced' = announced \cup done
           /\ emitted' = EndedEvents(done) \o <<Event("uncaughtException", itemId)>>
    /\ UNCHANGED <<operatorCalls, now, items, bidQueues, allAuctionsEndTime, pending,
                   replies, nextId, held, handed, broadcast, lastAccepted, shadow,
                   cancelledAt>>

\* the body of the POST /reset-auctions handler
RunResetAllAuctions(minutes) ==
    /\ Requests < MaxRequests
    /\ operatorCalls' = operatorCalls + 1
    /\ items' = resetAllAuctions(items, now, minutes)
    /\ shadow' = resetAllAuctions(shadow, now, minutes)
    /\ lastAccepted' = FreshPeriod(items)
    /\ announced' = {}
    /\ handed' = Copies(items')
    /\ broadcast' = NoBroadcast
    /\ emitted' = <<Event("POST /reset-auctions", handed'.seen)>>
    /\ UNCHANGED <<now, bidQueues, allAuctionsEndTime, notifiedEndedAuctions,
                   pending, replies, nextId, held, cancelledAt>>

\* POST /reset-auctions
ResetAllAuctions(minutes) ==
    /\ Quiescent
    /\ RunResetAllAuctions(minutes)

\* the handler run between two chained units of work
ResetAllAuctionsInterleaved(minutes) ==
    /\ pending # {}
    /\ RunResetAllAuctions(minutes)

\* AuctionManager.resetAuction
ResetAuction(itemId) ==
    /\ Quiescent
    /\ Requests < MaxRequests
    /\ operatorCalls' = operatorCalls + 1
    /\ items' = resetAuction(items, now, itemId)
    /\ shadow' = resetAuction(shadow, now, itemId)
    /\ lastAccepted' = [lastAccepted EXCEPT ![itemId] = FreshPeriod(items)[itemId]]
    /\ announced' = announced \ {itemId}
    /\ emitted' = <<>>
    /\ UNCHANGED <<now, bidQueues, allAuctionsEndTime, notifiedEndedAuctions,
                   pending, replies, nextId, held, handed, cancelledAt>>
    /\ broadcast' = [broadcast EXCEPT ![itemId] = 0]

\* GET /restart-countdown
RestartCountdownQuery ==
    /\ Quiescent
    /\ Requests < MaxRequests
    /\ operatorCalls' = operatorCalls + 1
    /\ LET countdown == getRestartCountdown(items, now, allAuctionsEndTime)
       IN  /\ allAuctionsEndTime' = countdown.allAuctionsEndTime
           /\ emitted' =
                <<Event("GET /restart-countdown",
                        [allAuctionsEnded |-> areAllAuctionsEnded(items, now),
                         restartCountdown |-> countdown.value])>>
    /\ UNCHANGED <<now, items, bidQueues, notifiedEndedAuctions, pending, replies,
                   nextId, lastAccepted, shadow>>
    /\ UNCHANGED <<held, handed, broadcast, announced, cancelledAt>>

\* GET /items/:id
GetItem(itemId) ==
    /\ Quiescent
    /\ Requests < MaxRequests
    /\ operatorCalls' = operatorCalls + 1
    /\ held' = getItem(items, itemId)
    /\ emitted' = <<Event("GET /items/:id", held'.seen)>>
    /\ UNCHANGED <<now, items, bidQueues, allAuctionsEndTime, notifiedEndedAuctions,
                   pending, replies, nextId, handed, broadcast, lastAccepted, shadow, announced,
                   cancelledAt>>

\* GET /items
GetAllItems ==
    /\ Quiescent
    /\ Requests < MaxRequests
    /\ operatorCalls' = operatorCalls + 1
    /\ held' = getAllItems(items)
    /\ emitted' = <<Event("GET /items", held'.seen)>>
    /\ UNCHANGED <<now, items, bidQueues, allAuctionsEndTime, notifiedEndedAuctions,
                   pending, replies, nextId, handed, broadcast, lastAccepted, shadow, announced,
                   cancelledAt>>

\* the wall clock moves on; the resumed handler does not read it, so its moves are
\* taken before an evaluation or after the delivery of its response
AdvanceTime ==
    /\ now + ClockStep <= MaxNow
    /\ replies = <<>>
    /\ now' = now + ClockStep
    /\ emitted' = <<>>
    /\ UNCHANGED <<operatorCalls, items, bidQueues, allAuctionsEndTime, notifiedEndedAuctions,
                   pending, replies, nextId, lastAccepted, shadow>>
    /\ UNCHANGED <<held, handed, broadcast, announced, cancelledAt>>

\* the timer callback is the last thing to have run
TimerFired == \E k \in 1..Len(emitted) : emitted[k].type = "RESTART_COUNTDOWN"

\* the wall clock seen at the grain of the restart delay: the interval timer, set to
\* one second, has fired by the time the clock is seen to move
AdvanceTimeFine ==
    /\ now + FineStep <= MaxLateNow
    /\ replies = <<>>
    /\ TimerFired
    /\ now' = now + FineStep
    /\ emitted' = <<>>
    /\ UNCHANGED <<operatorCalls, items, bidQueues, allAuctionsEndTime, notifiedEndedAuctions,
                   pending, replies, nextId, held, handed, broadcast, lastAccepted, shadow,
                   announced, cancelledAt>>

\* the wall clock comes within a millisecond of the next such instant
AdvanceTimeToEdge ==
    /\ replies = <<>>
    /\ TimerFired
    /\ \E e \in Edges :
          /\ now < e - Jitter
          /\ e <= MaxLateNow
          /\ \A f \in Edges : ~(now < f /\ f < e)
          /\ now' = e - Jitter
    /\ emitted' = <<>>
    /\ UNCHANGED <<operatorCalls, items, bidQueues, allAuctionsEndTime, notifiedEndedAuctions,
                   pending, replies, nextId, held, handed, broadcast, lastAccepted, shadow,
                   announced, cancelledAt>>

---------------------------------------------------------------------------
(* Specifications *)

Next ==
    \/ \E q \in BidRequests : ProcessBid(q.itemId, q.bidAmount, q.userId)
    \/ \E b \in pending : Evaluate(b)
    \/ Deliver
    \/ \E m \in [Items -> RandomMinutes] : Tick(m)
    \/ \E m \in [Items -> RandomMinutes] : ResetAllAuctions(m)
    \/ \E i \in Items : ResetAuction(i)
    \/ RestartCountdownQuery
    \/ AdvanceTime

\* normal operation: no statement of executeBid throws
Spec == Init /\ [][Next]_vars

NextThrowing ==
    \/ Next
    \/ \E b \in pending : EvaluateThrowing(b)

\* the logger may throw inside executeBid
SpecThrowing == Init /\ [][NextThrowing]_vars

\* normal operation, observed from a running auction
SpecLeading == InitLeading /\ [][Next]_vars

NextLifecycle ==
    \/ \E m \in [Items -> RandomMinutes] : Tick(m)
    \/ \E m \in [Items -> RandomMinutes] : ResetAllAuctions(m)
    \/ \E i \in Items : ResetAuction(i)
    \/ RestartCountdownQuery
    \/ AdvanceTimeFine

\* the tick, the operator and the clock over a whole period and into the next, from a
\* running auction on which no further bid arrives
SpecLifecycle == InitLeading /\ [][NextLifecycle]_vars

NextCycle ==
    \/ \E m \in [Items -> RandomMinutes] : Tick(m)
    \/ RestartCountdownQuery
    \/ AdvanceTimeFine

\* the lifecycle left to itself: no bid and no manual reset; the interval timer keeps
\* firing and the clock keeps moving
SpecCycle ==
    /\ InitLeading
    /\ [][NextCycle]_vars
    /\ WF_vars(\E m \in [Items -> RandomMinutes] : Tick(m))
    /\ WF_vars(AdvanceTimeFine)

NextTickClock ==
    \/ NextCycle
    \/ \E m \in [Items -> RandomMinutes] : TickAcrossClock(m)
    \/ AdvanceTimeToEdge

\* the lifecycle left to itself, with the clock moving while the callback runs
SpecTickClock == InitLeading /\ [][NextTickClock]_vars

NextTickThrowing ==
    \/ NextCycle
    \/ \E i \in Items : TickThrowing(i)

\* the lifecycle left to itself, where the logger may throw in the callback's loop
SpecTickThrowing == InitLeading /\ [][NextTickThrowing]_vars

NextInterleaved ==
    \/ \E q \in BidRequests : ProcessBid(q.itemId, q.bidAmount, q.userId)
    \/ \E b \in pending : Evaluate(b)
    \/ Deliver
    \/ AdvanceTime
    \/ \E m \in [Items -> RandomMinutes] : Tick(m)
    \/ \E m \in [Items -> RandomMinutes] : TickInterleaved(m)
    \/ \E m \in [Items -> RandomMinutes] : ResetAllAuctionsInterleaved(m)

\* bids, the tick and the operator's reset under every order of the resets and
\* the chained units of work; the orders of the event loop are among these
SpecInterleaved == InitLeading /\ [][NextInterleaved]_vars

NextReaders ==
    \/ Next
    \/ \E i \in ItemIds : GetItem(i)
    \/ GetAllItems

\* normal operation with the read routes
SpecReaders == Init /\ [][NextReaders]_vars

NextMalformed ==
    \/ Next
    \/ \E q \in MalformedRequests : ProcessBid(q.itemId, q.bidAmount, q.userId)

\* normal operation with clients that send incomplete payloads
SpecMalformed == Init /\ [][NextMalformed]_vars

NextLive ==
    \/ NextThrowing
    \/ DeliverThrowing

\* the event loop keeps running: a ready unit is evaluated, a settled promise resumes
\* its handler; logging statements may throw
SpecLive ==
    /\ Init
    /\ [][NextLive]_vars
    /\ WF_vars(\E b \in pending : Evaluate(b) \/ EvaluateThrowing(b))
    /\ WF_vars(Deliver \/ DeliverThrowing)

---------------------------------------------------------------------------
(* Properties *)

\* the settled bids whose handler has not resumed yet
Answered == {replies[k] : k \in 1..Len(replies)}

OnListedItem(r) == r.bid.itemId \in Items

ActiveWhenEvaluated(r) == OnListedItem(r) /\ r.at < r.saw.auctionEndTime

MeetsIncrement(r) == r.bid.bidAmount >= r.saw.currentBid + MIN_INCREMENT

LedByBidder(r) == r.saw.currentBidder = r.bid.userId

\* r2 was chained directly on r1
ChainedOn(r2, r1) == r2.bid.prev = r1.bid.id /\ r2.bid.itemId = r1.bid.itemId

\* C1: per item, evaluations follow the order of the processBid calls: no unit of an
\* item is still waiting once a later-submitted unit of that item has been evaluated,
\* whatever the earlier evaluation did (accept, reject, throw).
C1_FifoPerItem ==
    /\ \A r \in Answered : \A b \in pending :
          b.itemId = r.bid.itemId => b.id > r.bid.id
    /\ \A j, k \in 1..Len(replies) :
          (j < k /\ replies[j].bid.itemId = replies[k].bid.itemId)
              => replies[j].bid.id < replies[k].bid.id

\* two units of one item were evaluated in turn, the first of them having thrown
C1_Witness ==
    \E j, k \in 1..Len(replies) :
        /\ j < k
        /\ ChainedOn(replies[k], replies[j])
        /\ replies[j].faulted

\* C2: within one active period of an item every accepted amount is at least
\* MIN_INCREMENT above the previously accepted amount, or above the starting price
\* when it is the first accepted bid of the period.
C2_AcceptedIncreasing ==
    \A r \in Answered :
        r.response.success =>
            r.bid.bidAmount >= r.prior.bidAmount + MIN_INCREMENT

\* a second bid of the period has been accepted
C2_Witness ==
    \E r \in Answered :
        r.response.success /\ r.prior.userId # Null /\ r.bid.bidAmount = 120

\* two bids of one amount by different users, chained back to back on one item that
\* is active at both evaluations, the amount meeting the increment over the price
\* the first of them read
SameAmountRace(r1, r2) ==
    /\ ChainedOn(r2, r1)
    /\ r1.bid.userId # r2.bid.userId
    /\ r1.bid.bidAmount = r2.bid.bidAmount
    /\ ActiveWhenEvaluated(r1)
    /\ ActiveWhenEvaluated(r2)
    /\ MeetsIncrement(r1)

FailingRules(r) ==
    IF r.saw = NoItem
    THEN {1}
    ELSE {n \in 2..4 :
            \/ n = 2 /\ r.at >= r.saw.auctionEndTime
            \/ n = 3 /\ r.bid.bidAmount < r.saw.currentBid + MIN_INCREMENT
            \/ n = 4 /\ r.saw.currentBidder = r.bid.userId}

Classifier(n) ==
    CASE n = 1 -> "ITEM_NOT_FOUND"
      [] n = 2 -> "AUCTION_ENDED"
      [] n = 3 -> "BID_TOO_LOW"
      [] n = 4 -> "ALREADY_HIGHEST_BIDDER"

FirstOf(S) == CHOOSE n \in S : \A m \in S : n <= m

\* C4: the response carries the classifier of the first failing rule in the order
\* item-exists, auction-ended, bid-too-low, already-highest-bidder, and succeeds only
\* when no rule fails.
C4_FirstFailingRule ==
    \A r \in Answered :
        IF FailingRules(r) = {}
        THEN r.response.success
        ELSE /\ ~r.response.success
             /\ r.response.error = Classifier(FirstOf(FailingRules(r)))

\* an expired item answered a too-low bid of its leader
C4_Witness ==
    \E r \in Answered :
        /\ FailingRules(r) = {2, 3, 4}
        /\ r.response.error = "AUCTION_ENDED"

\* C5: on an active item led by someone else a bid is accepted iff
\* bidAmount >= currentBid + 10; a rejection is BID_TOO_LOW and states that minimum.
C5_IncrementThreshold ==
    \A r \in Answered :
        (ActiveWhenEvaluated(r) /\ ~LedByBidder(r)) =>
            /\ r.response.success <=> MeetsIncrement(r)
            /\ ~r.response.success =>
                  /\ r.response.error = "BID_TOO_LOW"
                  /\ r.response.message.amount = r.saw.currentBid + MIN_INCREMENT

\* at currentBid = 100 a bid of 109 was rejected, stating 110, and one of 110 accepted
C5_Witness ==
    \E r1, r2 \in Answered :
        /\ r1.bid.bidAmount = 109 /\ r1.saw.currentBid = 100 /\ ActiveWhenEvaluated(r1)
        /\ r1.response.error = "BID_TOO_LOW" /\ r1.response.message.amount = 110
        /\ r2.bid.bidAmount = 110 /\ r2.saw.currentBid = 100 /\ r2.response.success

\* C6: the leader of an active item bidding at least currentBid + 10 is rejected with
\* ALREADY_HIGHEST_BIDDER and the item is left as it was; so no accepted bid is by the
\* bidder of the previously accepted bid of the period.
C6_LeaderRejected ==
    \A r \in Answered :
        /\ (ActiveWhenEvaluated(r) /\ LedByBidder(r) /\ MeetsIncrement(r)) =>
              /\ ~r.response.success
              /\ r.response.error = "ALREADY_HIGHEST_BIDDER"
              /\ r.left = r.saw
        /\ r.response.success => r.prior.userId # r.bid.userId

\* the leader raised its own bid by the increment and was turned away
C6_Witness ==
    \E r \in Answered :
        /\ ActiveWhenEvaluated(r) /\ LedByBidder(r) /\ MeetsIncrement(r)
        /\ r.response.error = "ALREADY_HIGHEST_BIDDER"

\* C7: a bid whose processBid call came at now >= auctionEndTime is answered
\* AUCTION_ENDED, whatever its amount.
C7_EndedAtSubmit ==
    \A r \in Answered :
        r.bid.endedAtSubmit =>
            ~r.response.success /\ r.response.error = "AUCTION_ENDED"

\* a bid that met the increment, by a user not leading, came at the end time or
\* later, after an operator reset had run
C7_Witness ==
    \E r \in Answered :
        /\ r.bid.endedAtSubmit
        /\ MeetsIncrement(r) /\ ~LedByBidder(r)
        /\ operatorCalls > 0
        /\ r.response.error = "AUCTION_ENDED"

\* the unit evaluated by this step, if it is an evaluation
Evaluated == replies'[Len(replies')]

IsEvaluation == Len(replies') = Len(replies) + 1

Registry(its) ==
    [i \in DOMAIN its |->
        [currentBid |-> its[i].currentBid, currentBidder |-> its[i].currentBidder,
         auctionEndTime |-> its[i].auctionEndTime]]

\* C8: an evaluation that answers success = false leaves every item as it was; one
\* that answers success writes bidAmount and userId into its item and nothing else.
C8_RejectionWritesNothing ==
    [][IsEvaluation =>
          IF Evaluated.response.success
          THEN Registry(items') =
                 [Registry(items) EXCEPT
                    ![Evaluated.bid.itemId].currentBid = Evaluated.bid.bidAmount,
                    ![Evaluated.bid.itemId].currentBidder = Evaluated.bid.userId]
          ELSE Registry(items') = Registry(items)]_vars

\* C9: a throwing evaluation is answered success = false, and every other bid gets
\* the outcome it would have had, had each throwing evaluation been a rejection.
C9_FaultIsARejection ==
    \A r \in Answered :
        /\ r.faulted => ~r.response.success
        /\ ~r.faulted =>
              /\ r.response.success = r.reference.success
              /\ r.response.error = r.reference.error

ErrorClassifiers ==
    {"ITEM_NOT_FOUND", "AUCTION_ENDED", "BID_TOO_LOW", "ALREADY_HIGHEST_BIDDER",
     "INTERNAL_ERROR"}

\* C10: every failed response carries one of the five error classifiers, a caught
\* fault INTERNAL_ERROR.
C10_ErrorClassifier ==
    \A r \in Answered :
        /\ ~r.response.success => r.response.error \in ErrorClassifiers
        /\ r.faulted => r.response.error = "INTERNAL_ERROR"

---------------------------------------------------------------------------
(* Properties of the handler, the registry and the readers *)

\* the positions of emitted at which the callback of request id is invoked
CallbacksFor(id) ==
    {k \in 1..Len(emitted) :
        emitted[k].type = "callback" /\ emitted[k].payload.bid.id = id}

\* request id has been through processBid and its handler has run to its end
Delivered(id) ==
    /\ id < nextId
    /\ \A b \in pending : b.id # id
    /\ \A k \in 1..Len(replies) : replies[k].bid.id # id

\* C11: every bid submitted through processBid is eventually answered, and the
\* callback of no bid is invoked more than once.
C11_ExactlyOneResult ==
    /\ [](\A id \in 1..MaxRequests : Cardinality(CallbacksFor(id)) <= 1)
    /\ \A id \in 1..MaxRequests : (nextId > id) ~> Delivered(id)

C13_NeverLoweredWhileActive ==
    [][\A i \in Items :
          (now < items[i].auctionEndTime /\ now' < items'[i].auctionEndTime)
              => items'[i].currentBid >= items[i].currentBid]_vars

\* C14: what getItem or getAllItems returned reads the same ever after, whatever bids
\* are accepted and whatever resets run.
C14_ReadersHoldCopies == View(held, items) = held.seen

---------------------------------------------------------------------------
(* Properties of the tick, the barrier and the resets *)

\* the positions of a sequence of events that carry an event of the given type
EventsOf(seq, type) == {k \in 1..Len(seq) : seq[k].type = type}

PayloadOf(seq, type) == seq[CHOOSE k \in EventsOf(seq, type) : TRUE].payload

\* this step is a run of the monitoring tick
TickStep == EventsOf(emitted', "RESTART_COUNTDOWN") # {}

\* this step rewrote the registry's end times
ResetStep == \E i \in Items : items'[i].auctionEndTime # items[i].auctionEndTime

\* a coordinated reset has just been broadcast
ResetBroadcast == EventsOf(emitted, "ALL_AUCTIONS_RESET") # {}

\* C15: a tick resets only when every item is expired and the recorded barrier is at
\* least RESTART_DELAY old; a tick that finds an active item reports no countdown,
\* resets nothing and leaves no barrier.
C15_ResetOnlyAfterDelay ==
    [][TickStep =>
          /\ ResetStep =>
                /\ areAllAuctionsEnded(items, now)
                /\ allAuctionsEndTime # NoTime
                /\ now >= allAuctionsEndTime + RESTART_DELAY
          /\ ~areAllAuctionsEnded(items, now) =>
                /\ PayloadOf(emitted', "RESTART_COUNTDOWN").restartCountdown = NoTime
                /\ items' = items
                /\ allAuctionsEndTime' = NoTime]_vars

\* the coordinated reset fired on a registry whose expiry an operator had moved
C15_Witness ==
    /\ ResetBroadcast
    /\ operatorCalls > 0
    /\ now >= 5 * MINUTE + RESTART_DELAY

\* C16: a tick that finds a recorded barrier and an active item clears the barrier
\* and reports a null countdown; a barrier is recorded as the moment of the step that
\* records it, a tick doing so reports the full RESTART_DELAY, and a barrier recorded
\* after a cancellation is later than the cancellation and, once every item is
\* expired, not earlier than the latest expiry.
C16_BarrierClearedAndRestarted ==
    /\ [][(TickStep /\ allAuctionsEndTime # NoTime /\ ~areAllAuctionsEnded(items, now))
             => (/\ allAuctionsEndTime' = NoTime
                 /\ PayloadOf(emitted', "RESTART_COUNTDOWN").restartCountdown = NoTime)]_vars
    /\ [][(allAuctionsEndTime = NoTime /\ allAuctionsEndTime' # NoTime)
             => (/\ allAuctionsEndTime' = now
                 /\ (TickStep =>
                       PayloadOf(emitted', "RESTART_COUNTDOWN").restartCountdown
                           = RESTART_DELAY))]_vars
    /\ []((cancelledAt # NoTime /\ allAuctionsEndTime # NoTime)
              => allAuctionsEndTime > cancelledAt)
    /\ []((allAuctionsEndTime # NoTime /\ areAllAuctionsEnded(items, now))
              => \A i \in Items : allAuctionsEndTime >= items[i].auctionEndTime)

\* a tick cancelled a countdown and a later countdown is running
C16_Witness ==
    /\ cancelledAt # NoTime
    /\ allAuctionsEndTime # NoTime
    /\ allAuctionsEndTime > cancelledAt

\* C17: the step that broadcasts a coordinated reset leaves every item at its
\* starting price, without bidder, ending 3 to 8 minutes after now, and it moved the
\* end time of every item.
C17_ResetIsTotal ==
    [][EventsOf(emitted', "ALL_AUCTIONS_RESET") # {} =>
          /\ DOMAIN items' = DOMAIN items
          /\ \A i \in DOMAIN items' :
                /\ items'[i].currentBid = items'[i].startingPrice
                /\ items'[i].currentBidder = Null
                /\ items'[i].auctionEndTime > now'
                /\ items'[i].auctionEndTime - now' >= 3 * MINUTE
                /\ items'[i].auctionEndTime - now' <= 8 * MINUTE
                /\ items'[i].auctionEndTime # items[i].auctionEndTime]_vars

\* a coordinated reset drew 3 minutes for one item and 8 for the other
C17_Witness ==
    /\ ResetBroadcast
    /\ items["item1"].auctionEndTime = now + 3 * MINUTE
    /\ items["item2"].auctionEndTime = now + 8 * MINUTE

\* the number of AUCTION_ENDED events for item i in a sequence of events
EndedCount(seq, i) ==
    Cardinality({k \in EventsOf(seq, "AUCTION_ENDED") : seq[k].payload = i})

\* C18: a tick announces an expired item once if its current period has not been
\* announced, and not again if it has.
C18_EndedOncePerPeriod ==
    [][TickStep =>
          \A i \in Items :
              (now >= items[i].auctionEndTime) =>
                  (EndedCount(emitted', i) = (IF i \in announced THEN 0 ELSE 1))]_vars

\* C19: a tick that resets broadcasts one ALL_AUCTIONS_RESET carrying the snapshot of
\* every item as reset, clears the barrier and empties the notified set; a tick that
\* does not reset broadcasts none.
C19_OneResetEvent ==
    [][TickStep =>
          IF ResetStep
          THEN /\ Cardinality(EventsOf(emitted', "ALL_AUCTIONS_RESET")) = 1
               /\ PayloadOf(emitted', "ALL_AUCTIONS_RESET") = Snapshots(items')
               /\ Len(PayloadOf(emitted', "ALL_AUCTIONS_RESET")) = Cardinality(DOMAIN items')
               /\ allAuctionsEndTime' = NoTime
               /\ notifiedEndedAuctions' = {}
          ELSE EventsOf(emitted', "ALL_AUCTIONS_RESET") = {}]_vars

\* the reset event went out with both snapshots, barrier and notified set cleared
C19_Witness ==
    /\ ResetBroadcast
    /\ Len(PayloadOf(emitted, "ALL_AUCTIONS_RESET")) = 2
    /\ allAuctionsEndTime = NoTime
    /\ notifiedEndedAuctions = {}

ReadRoutes == {"GET /items", "GET /items/:id", "GET /restart-countdown"}

\* C20: a read route leaves the items, the barrier and the notified set as they were.
C20_QueriesArePure ==
    [][(\E r \in ReadRoutes : EventsOf(emitted', r) # {}) =>
          UNCHANGED <<items, allAuctionsEndTime, notifiedEndedAuctions>>]_vars

---------------------------------------------------------------------------
(* Properties of the broadcasts, the operator reset and the countdown *)

\* this step is the BID_PLACED handler resuming with the head of replies
HandlerStep == EventsOf(emitted', "callback") # {}

\* C21: the handler that resumes with an accepted bid broadcasts one UPDATE_BID with
\* the item snapshot and one OUTBID sparing the bidder; with a rejected or failed bid
\* it broadcasts neither; no other step broadcasts either event.
C21_OneBroadcastPerAcceptedBid ==
    [][IF HandlerStep /\ Head(replies).response.success
       THEN /\ Cardinality(EventsOf(emitted', "UPDATE_BID")) = 1
            /\ PayloadOf(emitted', "UPDATE_BID") = Head(replies).response.item
            /\ Cardinality(EventsOf(emitted', "OUTBID")) = 1
            /\ PayloadOf(emitted', "OUTBID").except = Head(replies).bid.userId
            /\ PayloadOf(emitted', "OUTBID").newBid = Head(replies).bid.bidAmount
       ELSE /\ EventsOf(emitted', "UPDATE_BID") = {}
            /\ EventsOf(emitted', "OUTBID") = {}]_vars

\* bids of 110 and 120 by two users, chained back to back on one item that stands at
\* 100 when the first is evaluated and is active at both evaluations
RaisingRace(r1, r2) ==
    /\ ChainedOn(r2, r1)
    /\ r1.bid.userId # r2.bid.userId
    /\ {r1.bid.bidAmount, r2.bid.bidAmount} = {110, 120}
    /\ r1.saw.currentBid = 100
    /\ ActiveWhenEvaluated(r1)
    /\ ActiveWhenEvaluated(r2)

\* C22: in either order the item ends at 120; when 110 came first both bids are
\* accepted and the handler of the 120 bid sends OUTBID to every connection but its
\* own, so to the 110 bidder; when 120 came first the 110 bid is answered BID_TOO_LOW.
C22_RaceEndsAtHigherBid ==
    /\ [](\A r1, r2 \in Answered :
            RaisingRace(r1, r2) =>
                /\ r2.left.currentBid = 120
                /\ r1.response.success
                /\ IF r1.bid.bidAmount = 110
                   THEN r2.response.success /\ r2.left.currentBidder = r2.bid.userId
                   ELSE ~r2.response.success /\ r2.response.error = "BID_TOO_LOW")
    /\ [][(HandlerStep /\ Head(replies).response.success) =>
             (/\ EventsOf(emitted', "OUTBID") # {}
              /\ PayloadOf(emitted', "OUTBID").except = Head(replies).bid.userId
              /\ PayloadOf(emitted', "OUTBID").itemId = Head(replies).bid.itemId)]_vars
    /\ [][HandlerStep =>
             PayloadOf(emitted', "callback").response = Head(replies).response]_vars

\* both orders of the race have been evaluated: here 110 came first and was overtaken
C22_Witness ==
    \E r1, r2 \in Answered :
        /\ RaisingRace(r1, r2)
        /\ r1.bid.bidAmount = 110
        /\ r2.response.success
        /\ r2.left.currentBid = 120

\* C23: a request without userId is turned away before the chain: no unit of work
\* carries it, no evaluation answers it, and no item gets it as currentBidder.
C23_MalformedNeverQueued ==
    /\ \A b \in pending : b.userId # Undefined
    /\ \A r \in Answered : r.bid.userId # Undefined
    /\ \A i \in DOMAIN items : items[i].currentBidder # Undefined

\* this step is POST /reset-auctions
OperatorResetStep == EventsOf(emitted', "POST /reset-auctions") # {}

\* C24: POST /reset-auctions is served whenever a request is, with or without a
\* barrier and whether items are active or expired, and leaves every item at its
\* starting price, without bidder and ending after now.
C24_OperatorResetImmediate ==
    /\ []((Quiescent /\ Requests < MaxRequests) =>
             ENABLED (\E m \in [Items -> RandomMinutes] : ResetAllAuctions(m)))
    /\ [][OperatorResetStep =>
             (/\ DOMAIN items' = DOMAIN items
              /\ \A i \in DOMAIN items' :
                    /\ items'[i].currentBid = items'[i].startingPrice
                    /\ items'[i].currentBidder = Null
                    /\ items'[i].auctionEndTime > now'
              /\ allAuctionsEndTime' = allAuctionsEndTime)]_vars

\* the operator reset ran while a countdown was running
C24_Witness ==
    /\ EventsOf(emitted, "POST /reset-auctions") # {}
    /\ allAuctionsEndTime # NoTime
    /\ \A i \in DOMAIN items : now < items[i].auctionEndTime

\* the registry as far as one item is concerned
OnlyItem(its, itemId) == [i \in DOMAIN its \cap {itemId} |-> its[i]]

\* this step evaluates a bid
EvaluationStep == Len(replies') = Len(replies) + 1

\* C25: a pending bid that has no earlier pending bid on its own item can be
\* evaluated, whatever is pending on other items; its evaluation answers what
\* executeBid answers on its own item alone and leaves every other item as it was.
C25_ItemsIndependent ==
    /\ [](\A b \in pending :
            (\A p \in pending : p.itemId = b.itemId => p.id >= b.id) => Ready(b))
    /\ [][EvaluationStep =>
            LET r == replies'[Len(replies')]
            IN  /\ r.response =
                      ExecuteBid(OnlyItem(items, r.bid.itemId), now, r.bid.itemId,
                                 r.bid.bidAmount, r.bid.userId).response
                /\ \A j \in DOMAIN items \ {r.bid.itemId} : items'[j] = items[j]]_vars

\* a bid was evaluated while an earlier bid on another item is still waiting
C25_Witness ==
    \E r \in Answered : \E b \in pending :
        /\ b.id < r.bid.id
        /\ b.itemId # r.bid.itemId
        /\ b.itemId \in Items /\ r.bid.itemId \in Items
        /\ r.response.success

\* this step is GET /restart-countdown
QueryStep == EventsOf(emitted', "GET /restart-countdown") # {}

\* what the call of getRestartCountdown made in this step returned
CountdownReturned ==
    IF TickStep THEN PayloadOf(emitted', "RESTART_COUNTDOWN").restartCountdown
    ELSE PayloadOf(emitted', "GET /restart-countdown").restartCountdown

AllExpired == \A i \in DOMAIN items : now >= items[i].auctionEndTime

\* the barrier timestamp a call made now works with
AllEndedAt == IF allAuctionsEndTime = NoTime THEN now ELSE allAuctionsEndTime

\* C26: a call of getRestartCountdown returns null when an item is active, and
\* otherwise max(0, allEndedAt + 30000 - now), a value between 0 and 30000; while
\* all items stay expired the barrier stays and the clock does not go back, so the
\* value a call returns cannot exceed that of an earlier call.
C26_CountdownValue ==
    /\ [][(TickStep \/ QueryStep) =>
            IF AllExpired
            THEN /\ CountdownReturned = Max(0, AllEndedAt + RESTART_DELAY - now)
                 /\ CountdownReturned >= 0
                 /\ CountdownReturned <= RESTART_DELAY
            ELSE CountdownReturned = NoTime]_vars
    /\ [][(AllExpired /\ AllExpired') =>
            /\ now' >= now
            /\ Max(0, AllEndedAt' + RESTART_DELAY - now')
                  <= Max(0, AllEndedAt + RESTART_DELAY - now)
            /\ ((TickStep \/ QueryStep) => allAuctionsEndTime' = AllEndedAt)]_vars

\* the countdown was asked for after the delay had passed, and 0 was returned
C26_Witness ==
    /\ AllExpired
    /\ allAuctionsEndTime # NoTime
    /\ now > allAuctionsEndTime + RESTART_DELAY
    /\ EventsOf(emitted, "GET /restart-countdown") # {}
    /\ PayloadOf(emitted, "GET /restart-countdown").restartCountdown = 0

Active(i) == now < items[i].auctionEndTime

\* C27: left to itself under a fair tick, every active item expires, once all items
\* are expired the coordinated reset fires, and at the reset every item is active
\* again with no barrier left (within the span of time observed).
C27_LifecycleCycles ==
    /\ \A i \in Items :
          (Active(i) /\ items[i].auctionEndTime <= MaxLateNow) ~> ~Active(i)
    /\ (AllExpired /\ AllEndedAt + RESTART_DELAY + FineStep <= MaxLateNow)
          ~> ResetBroadcast
    /\ [](ResetBroadcast =>
            /\ \A i \in Items : Active(i)
            /\ allAuctionsEndTime = NoTime
            /\ notifiedEndedAuctions = {})

\* the reset has fired on its own and an item of the new period has expired in turn
C27_Witness ==
    /\ operatorCalls = 0
    /\ \E i \in Items : ~Active(i) /\ items[i].auctionEndTime > 240000 + RESTART_DELAY

\* C28: every tick emits exactly one RESTART_COUNTDOWN, in which allAuctionsEnded
\* is true exactly when restartCountdown is not null, and the tick that resets
\* emits it with 0 remaining, ahead of ALL_AUCTIONS_RESET.
C28_CountdownEventConsistent ==
    [][TickStep =>
        LET status == PayloadOf(emitted', "RESTART_COUNTDOWN")
        IN  /\ Cardinality(EventsOf(emitted', "RESTART_COUNTDOWN")) = 1
            /\ status.allAuctionsEnded <=> (status.restartCountdown # NoTime)
            /\ (EventsOf(emitted', "ALL_AUCTIONS_RESET") # {} =>
                  /\ status.restartCountdown = 0
                  /\ \A j \in EventsOf(emitted', "RESTART_COUNTDOWN") :
                        \A k \in EventsOf(emitted', "ALL_AUCTIONS_RESET") : j < k)]_vars

\* this step is a run of the timer callback, completed or not
CallbackStep == TickStep \/ EventsOf(emitted', "uncaughtException") # {}

\* C29: a run of the tick raises nothing, announces every item that has expired
\* and was not announced yet, and goes on to its countdown broadcast, whatever
\* happens while it handles one of the items.
C29_TickIsolatesItemFaults ==
    [][CallbackStep =>
        /\ EventsOf(emitted', "uncaughtException") = {}
        /\ \A i \in getExpiredAuctions(items, now) \ notifiedEndedAuctions :
              \E k \in EventsOf(emitted', "AUCTION_ENDED") : emitted'[k].payload = i
        /\ EventsOf(emitted', "RESTART_COUNTDOWN") # {}]_vars

---------------------------------------------------------------------------
(* Properties of the registry, the barrier and the queued bids across resets *)

C32_BarrierOnlyWhenAllExpired == allAuctionsEndTime # NoTime => AllExpired

\* getRestartCountdown is the last thing to have run, from the tick or from the route
CountdownJustRead == TimerFired \/ EventsOf(emitted, "GET /restart-countdown") # {}

\* C32 as amended: a recorded barrier is never later than now, and implies that
\* every item is expired in every state left by a call of getRestartCountdown; a
\* manual reset leaves a recorded barrier in place, and the next call, before the
\* clock is seen to move, clears it.
C32_BarrierClearedByNextCall ==
    /\ [](allAuctionsEndTime # NoTime => allAuctionsEndTime <= now)
    /\ []((CountdownJustRead /\ allAuctionsEndTime # NoTime) => AllExpired)
    /\ [][now' # now => (allAuctionsEndTime # NoTime => AllExpired)]_vars
    /\ [][(ResetStep /\ ~TickStep) => allAuctionsEndTime' = allAuctionsEndTime]_vars

\* a manual reset ran during the countdown and the following tick cleared the barrier
C32_Witness ==
    /\ operatorCalls > 0
    /\ TimerFired
    /\ cancelledAt = now
    /\ allAuctionsEndTime = NoTime
    /\ \E i \in Items : Active(i) /\ items[i].auctionEndTime > MaxLateNow

\* C33: when a tick broadcasts ALL_AUCTIONS_RESET, every item has had the expiry of
\* its current period announced, by an earlier tick or earlier in this one.
C33_ResetOnlyAfterAnnouncement ==
    [][(TickStep /\ EventsOf(emitted', "ALL_AUCTIONS_RESET") # {}) =>
          \A i \in Items :
              \/ i \in announced
              \/ \E k \in EventsOf(emitted', "AUCTION_ENDED") :
                    /\ emitted'[k].payload = i
                    /\ \A n \in EventsOf(emitted', "ALL_AUCTIONS_RESET") : k < n]_vars

\* C34: the handler of an accepted bid calls the bidder's callback before it emits
\* UPDATE_BID; each UPDATE_BID of an item carries a higher currentBid than the one
\* before it in the period; and once no bid is queued or undelivered, the registry's
\* currentBid of a raised item is the one the last UPDATE_BID carried.
C34_BroadcastsFollowAcceptance ==
    /\ [][(HandlerStep /\ EventsOf(emitted', "UPDATE_BID") # {}) =>
            /\ \A c \in EventsOf(emitted', "callback") :
                  \A u \in EventsOf(emitted', "UPDATE_BID") : c < u
            /\ PayloadOf(emitted', "UPDATE_BID").currentBid
                  > broadcast[PayloadOf(emitted', "UPDATE_BID").id]]_vars
    /\ [](Quiescent =>
            \A i \in Items :
                items[i].currentBid > items[i].startingPrice
                    => broadcast[i] = items[i].currentBid)

\* C35: a step taken while an item is expired leaves its currentBid and
\* currentBidder as they are unless the step resets the item, and every bid
\* evaluated on an expired item is refused.
C35_FrozenAfterExpiry ==
    /\ [][\A i \in Items :
            (now >= items[i].auctionEndTime
               /\ items'[i].auctionEndTime = items[i].auctionEndTime)
            => /\ items'[i].currentBid = items[i].currentBid
               /\ items'[i].currentBidder = items[i].currentBidder]_vars
    /\ [](\A r \in Answered :
            (OnListedItem(r) /\ r.at >= r.saw.auctionEndTime)
            => /\ ~r.response.success
               /\ r.left = r.saw)

\* a bid that would have outbid the winner of an expired item was refused
C35_Witness ==
    \E r \in Answered :
        /\ OnListedItem(r)
        /\ r.at >= r.saw.auctionEndTime
        /\ r.saw.currentBidder # Null
        /\ r.saw.currentBidder # r.bid.userId
        /\ MeetsIncrement(r)
        /\ r.response.error = "AUCTION_ENDED"
        /\ items[r.bid.itemId].currentBidder = r.saw.currentBidder

\* the keys of the bidQueues map
QueueKeys == {i \in DOMAIN bidQueues : bidQueues[i] # Absent}

\* C36: bidQueues has a key for every item of the registry and for nothing else,
\* whatever processBid calls have been made.
C36_QueueKeysAreItems == QueueKeys = DOMAIN items

\* C37: a reset leaves the queued units, the chains and the undelivered results
\* as they are, and a unit evaluated after a reset is accepted exactly when the
\* item as the reset (and any bid since) left it is active, the amount is at
\* least its current bid plus 10, and the bidder does not lead it.
C37_JudgedAfterReset ==
    /\ [][ResetStep =>
            /\ pending' = pending
            /\ replies' = replies
            /\ bidQueues' = bidQueues]_vars
    /\ [](\A r \in Answered :
            OnListedItem(r) =>
                /\ r.saw.currentBid >= r.saw.startingPrice
                /\ r.response.success <=>
                      (ActiveWhenEvaluated(r) /\ MeetsIncrement(r) /\ ~LedByBidder(r)))

\* a bid queued on an expired, led item was evaluated after a reset and accepted at
\* a price below the one it was submitted against
C37_Witness ==
    \E r \in Answered :
        /\ r.bid.endedAtSubmit
        /\ r.response.success
        /\ r.saw.currentBid = r.saw.startingPrice
        /\ r.saw.currentBidder = Null

=============================================================================
